---- MODULE Spec2Model ----
(***************************************************************************)
(* State-machine model of the creditRisk Lightning web component           *)
(* (src/unnamed/part_000; src/force-app/.../creditRisk.js is the same      *)
(* component without the sort handler).                                    *)
(*                                                                         *)
(* One action per handler run.  An async function is cut at its awaits:    *)
(* everything between two awaits is one action, because JavaScript runs   *)
(* it to completion on the single UI thread.                               *)
(***************************************************************************)
EXTENDS Integers, Sequences, FiniteSets, Bags, TLC

\* Number of _performCreditRiskCheck runs that may be suspended at once.
MaxInFlight == 2

\* Length of the longest history the wire adapter delivers under SpecLogs.
MaxLen == 3

(***************************************************************************)
(* JavaScript values.  Every value carries its type tag, so that ??, ?.,   *)
(* truthiness, template literals and < behave as the language defines.     *)
(***************************************************************************)
Undefined == [t |-> "undefined"]
Null == [t |-> "null"]
Str(s) == [t |-> "string", s |-> s]
Num(n) == [t |-> "number", n |-> n]
Bool(b) == [t |-> "boolean", b |-> b]
Arr(items) == [t |-> "array", items |-> items]

Nullish(v) == v.t \in {"undefined", "null"}

\* a ?? b
Coalesce(a, b) == IF Nullish(a) THEN b ELSE a

\* o[f] on an object: a property the object lacks reads as undefined
Get(o, f) == IF f \in DOMAIN o THEN o[f] ELSE Undefined

\* o?.f
OptGet(o, f) == IF Nullish(o) THEN Undefined ELSE Get(o, f)

\* ToBoolean
Truthy(v) ==
    CASE v.t = "undefined" -> FALSE
      [] v.t = "null" -> FALSE
      [] v.t = "string" -> v.s # ""
      [] v.t = "number" -> v.n # 0
      [] v.t = "boolean" -> v.b
      [] OTHER -> TRUE

\* ${v} in a template literal, for the value types that reach one here
TemplateString(v) ==
    CASE v.t = "string" -> v.s
      [] v.t = "undefined" -> "undefined"
      [] v.t = "null" -> "null"
      [] v.t = "boolean" -> (IF v.b THEN "true" ELSE "false")
      [] OTHER -> "[object Object]"

(***************************************************************************)
(* Literals of the component.                                              *)
(***************************************************************************)
READ_FAILURE_MESSAGE == "Unable to load assessment history. Please refresh the page."
FALLBACK_MESSAGE == "An unexpected error occurred. Please try again."
\* The em dash (one UTF-16 code unit, 8212), written by its code point.
PLACEHOLDER == "U+2014"

(***************************************************************************)
(* The component instance: its fields, the suspended runs of               *)
(* _performCreditRiskCheck, and what the last handler run put out (the     *)
(* toasts it dispatched, the run that returned in it).                     *)
(***************************************************************************)
VARIABLES
    recordId,          \* @api recordId
    isLoading,
    errorMessage,
    latestResult,
    sortedBy,
    sortedDirection,
    wiredLogsResult,   \* _wiredLogsResult
    logs,
    runs,              \* bag of the runs of _performCreditRiskCheck at an await
    toasts,            \* ShowToastEvents dispatched by the last handler run
    returned,          \* the run that ended in the last handler run, or NoRun
    overlapped,        \* history: a click has come while a run was suspended
    connected          \* the element is in the DOM (false after disconnectedCallback)

vars == <<recordId, isLoading, errorMessage, latestResult, sortedBy,
          sortedDirection, wiredLogsResult, logs, runs, toasts, returned, overlapped,
          connected>>

\* `this`, as the helpers see it
This ==
    [isLoading |-> isLoading, errorMessage |-> errorMessage,
     latestResult |-> latestResult, toasts |-> <<>>]

NoRun == [pc |-> "none"]

(***************************************************************************)
(* Inputs: what the Apex service, the wire adapter and the datatable can   *)
(* hand to the component.                                                  *)
(***************************************************************************)
RecordIds == {Str("003A")}

\* checkCreditRisk resolves with a result wrapper, or with null
ResultHigh ==
    [t |-> "object", success |-> Bool(TRUE), riskLevel |-> Str("High"),
     errorMessage |-> Undefined]
ResultFailed ==
    [t |-> "object", success |-> Bool(FALSE), riskLevel |-> Undefined,
     errorMessage |-> Str("Provider unavailable")]
ServiceResults == {ResultHigh, ResultFailed, Null}

\* checkCreditRisk rejects with an error of any shape
ErrorObj(body, message) == [t |-> "object", body |-> body, message |-> message]
Body(message) == [t |-> "object", message |-> message]
ServiceErrors ==
    {ErrorObj(Body(Str("Callout limit exceeded")), Str("Network Error")),
     ErrorObj(Body(Str("")), Str("Network Error")),
     ErrorObj(Body(Undefined), Str("Network Error")),
     ErrorObj(Undefined, Str("Network Error")),
     ErrorObj(Undefined, Undefined),
     Undefined}

\* Records getCreditRiskLogs returns; a field Apex left null is absent
LogA ==
    [Id |-> Str("a01"), Risk_Level__c |-> Str("High"), API_Answer__c |-> Str("yes"),
     HTTP_Status_Code__c |-> Num(200), Callout_Success__c |-> Bool(TRUE),
     Callout_Timestamp__c |-> Str("2024-01-01T09:00:00.000Z")]
LogB ==
    [Id |-> Str("a02"), HTTP_Status_Code__c |-> Num(503),
     Callout_Success__c |-> Bool(FALSE), Error_Message__c |-> Str("timeout"),
     Callout_Timestamp__c |-> Str("2024-01-02T09:00:00.000Z")]
LogC ==
    [Id |-> Str("a03"), Risk_Level__c |-> Str("Low"), API_Answer__c |-> Str("no"),
     HTTP_Status_Code__c |-> Num(200), Callout_Success__c |-> Bool(TRUE),
     Callout_Timestamp__c |-> Str("2024-01-03T09:00:00.000Z")]

\* a record whose optional fields are all null, as old as LogB, as risky as LogA
LogD ==
    [Id |-> Str("a04"), Risk_Level__c |-> Str("High"),
     Callout_Timestamp__c |-> Str("2024-01-02T09:00:00.000Z")]

WireResult(data, error) == [t |-> "object", data |-> data, error |-> error]
WireError == [t |-> "object", body |-> Body(Str("List has no rows"))]
WireResults ==
    {WireResult(Undefined, Undefined),
     WireResult(Arr(<<LogA, LogB>>), Undefined),
     WireResult(Undefined, WireError)}

\* What the datatable asks for under Spec
SortFields == {"Risk_Level__c"}
SortDirections == {"asc"}

\* Under SpecLogs: every history of at most MaxLen distinct records, and a
\* sort request for any field of an entry or for a field no entry has
LogRecords == {LogA, LogB, LogC, LogD}
Histories ==
    UNION {{h \in [1..n -> LogRecords] : \A i, j \in 1..n : i # j => h[i] # h[j]} :
           n \in 0..MaxLen}
LogsWireResults ==
    WireResults \cup {WireResult(Arr(h), Undefined) : h \in Histories}
LogsSortFields ==
    {"Callout_Timestamp__c", "Risk_Level__c", "API_Answer__c", "HTTP_Status_Code__c",
     "noSuchField"}
LogsSortDirections == {"asc", "desc"}

(***************************************************************************)
(* Abstract relational comparison a < b.                                   *)
(***************************************************************************)
TimestampCodeUnits(day) ==
    <<50, 48, 50, 52, 45, 48, 49, 45, 48, day, 84, 48, 57, 58, 48, 48, 58, 48, 48,
      46, 48, 48, 48, 90>>

\* UTF-16 code units of the strings that occur as field values
CodeUnits(s) ==
    CASE s = "" -> <<>>
      [] s = "High" -> <<72, 105, 103, 104>>
      [] s = "Low" -> <<76, 111, 119>>
      [] s = "Unknown" -> <<85, 110, 107, 110, 111, 119, 110>>
      [] s = "yes" -> <<121, 101, 115>>
      [] s = "no" -> <<110, 111>>
      [] s = "timeout" -> <<116, 105, 109, 101, 111, 117, 116>>
      [] s = "Success" -> <<83, 117, 99, 99, 101, 115, 115>>
      [] s = "Failed" -> <<70, 97, 105, 108, 101, 100>>
      [] s = "a01" -> <<97, 48, 49>>
      [] s = "a02" -> <<97, 48, 50>>
      [] s = "a03" -> <<97, 48, 51>>
      [] s = "a04" -> <<97, 48, 52>>
      [] s = "utility:success" ->
            <<117, 116, 105, 108, 105, 116, 121, 58, 115, 117, 99, 99, 101, 115, 115>>
      [] s = "utility:error" ->
            <<117, 116, 105, 108, 105, 116, 121, 58, 101, 114, 114, 111, 114>>
      [] s = PLACEHOLDER -> <<8212>>
      [] s = "2024-01-01T09:00:00.000Z" -> TimestampCodeUnits(49)
      [] s = "2024-01-02T09:00:00.000Z" -> TimestampCodeUnits(50)
      [] s = "2024-01-03T09:00:00.000Z" -> TimestampCodeUnits(51)

RECURSIVE SeqLess(_, _)
SeqLess(u, v) ==
    IF v = <<>> THEN FALSE
    ELSE IF u = <<>> THEN TRUE
    ELSE IF Head(u) # Head(v) THEN Head(u) < Head(v)
    ELSE SeqLess(Tail(u), Tail(v))

\* ToNumber is NaN for undefined, for objects and for non-numeric strings
IsNaN(v) == ~(v.t \in {"number", "boolean", "null"} \/ (v.t = "string" /\ v.s = ""))

ToNumber(v) ==
    CASE v.t = "number" -> v.n
      [] v.t = "boolean" -> (IF v.b THEN 1 ELSE 0)
      [] OTHER -> 0

JsLess(a, b) ==
    IF a.t = "string" /\ b.t = "string"
    THEN SeqLess(CodeUnits(a.s), CodeUnits(b.s))
    ELSE ~IsNaN(a) /\ ~IsNaN(b) /\ ToNumber(a) < ToNumber(b)

(***************************************************************************)
(* _sortLogs: Array.prototype.sort is stable; the comparator is the        *)
(* arrow function of the source.                                           *)
(***************************************************************************)
\* Variant: a comparator that never answers 0
Comparator_NoTies(a, b, field, factor) ==
    LET valA == Coalesce(Get(a, field), Str(""))
        valB == Coalesce(Get(b, field), Str(""))
    IN  IF JsLess(valA, valB) THEN -1 * factor ELSE 1 * factor

Comparator(a, b, field, factor) ==
    LET valA == Coalesce(Get(a, field), Str(""))
        valB == Coalesce(Get(b, field), Str(""))
    IN  IF JsLess(valA, valB) THEN -1 * factor
        ELSE IF JsLess(valB, valA) THEN 1 * factor
        ELSE 0

\* x goes behind the last element that does not have to follow it
RECURSIVE InsertStable(_, _, _, _)
InsertStable(sorted, x, field, factor) ==
    IF sorted = <<>> THEN <<x>>
    ELSE LET last == sorted[Len(sorted)]
         IN  IF Comparator(last, x, field, factor) > 0
             THEN Append(InsertStable(SubSeq(sorted, 1, Len(sorted) - 1), x, field, factor), last)
             ELSE Append(sorted, x)

RECURSIVE StableSort(_, _, _)
StableSort(data, field, factor) ==
    IF data = <<>> THEN <<>>
    ELSE InsertStable(StableSort(SubSeq(data, 1, Len(data) - 1), field, factor),
                      data[Len(data)], field, factor)

\* Variant: the direction is not looked at
_sortLogs_Ascending(data, field, direction) == StableSort(data, field, 1)

_sortLogs(data, field, direction) ==
    LET factor == IF direction = "asc" THEN 1 ELSE -1
    IN  StableSort(data, field, factor)

(***************************************************************************)
(* _transformLogs                                                          *)
(***************************************************************************)
\* Variant: only the risk level gets the placeholder
TransformLog_AnswerAsIs(log) ==
    [Id |-> Get(log, "Id"),
     Risk_Level__c |-> Coalesce(Get(log, "Risk_Level__c"), Str(PLACEHOLDER)),
     API_Answer__c |-> Get(log, "API_Answer__c"),
     HTTP_Status_Code__c |-> Get(log, "HTTP_Status_Code__c"),
     Callout_Success__c |-> Get(log, "Callout_Success__c"),
     statusText |->
        IF Truthy(Get(log, "Callout_Success__c")) THEN Str("Success") ELSE Str("Failed"),
     statusIconName |->
        IF Truthy(Get(log, "Callout_Success__c"))
        THEN Str("utility:success") ELSE Str("utility:error"),
     Error_Message__c |-> Coalesce(Get(log, "Error_Message__c"), Str("")),
     Callout_Timestamp__c |-> Get(log, "Callout_Timestamp__c")]

TransformLog(log) ==
    [Id |-> Get(log, "Id"),
     Risk_Level__c |-> Coalesce(Get(log, "Risk_Level__c"), Str(PLACEHOLDER)),
     API_Answer__c |-> Coalesce(Get(log, "API_Answer__c"), Str(PLACEHOLDER)),
     HTTP_Status_Code__c |-> Get(log, "HTTP_Status_Code__c"),
     Callout_Success__c |-> Get(log, "Callout_Success__c"),
     statusText |->
        IF Truthy(Get(log, "Callout_Success__c")) THEN Str("Success") ELSE Str("Failed"),
     statusIconName |->
        IF Truthy(Get(log, "Callout_Success__c"))
        THEN Str("utility:success") ELSE Str("utility:error"),
     Error_Message__c |-> Coalesce(Get(log, "Error_Message__c"), Str("")),
     Callout_Timestamp__c |-> Get(log, "Callout_Timestamp__c")]

_transformLogs(rawLogs) == [i \in 1..Len(rawLogs) |-> TransformLog(rawLogs[i])]

(***************************************************************************)
(* Private helpers of the component.  c is `this`; the result is `this`    *)
(* after the call.                                                         *)
(***************************************************************************)
_dispatchToast(c, title, message, variant) ==
    [c EXCEPT !.toasts =
        Append(@, [title |-> title, message |-> message, variant |-> variant])]

\* Variant: the failure branch shows the raw reason, without the prefix
_handleCheckResult_NoPrefix(c, result) ==
    IF Truthy(Get(result, "success"))
    THEN _dispatchToast(c, "Assessment Complete",
            Str("Risk Level: " \o TemplateString(Get(result, "riskLevel"))), "success")
    ELSE _dispatchToast(
            [c EXCEPT !.errorMessage = Get(result, "errorMessage")],
            "API Error", Get(result, "errorMessage"), "warning")

\* result is an object here; on null or undefined reading .success throws
_handleCheckResult(c, result) ==
    IF Truthy(Get(result, "success"))
    THEN _dispatchToast(c, "Assessment Complete",
            Str("Risk Level: " \o TemplateString(Get(result, "riskLevel"))), "success")
    ELSE _dispatchToast(
            [c EXCEPT !.errorMessage =
                Str("API responded with an error: "
                    \o TemplateString(Get(result, "errorMessage")))],
            "API Error", Get(result, "errorMessage"), "warning")

\* a || b
OrElse(a, b) == IF Truthy(a) THEN a ELSE b

\* Variant: || in place of ??, so an empty message falls through
_handleCheckError_Falsy(c, error) ==
    LET message ==
            OrElse(OrElse(OptGet(OptGet(error, "body"), "message"),
                          OptGet(error, "message")),
                   Str(FALLBACK_MESSAGE))
    IN  _dispatchToast([c EXCEPT !.errorMessage = message], "Error", message, "error")

_handleCheckError(c, error) ==
    LET message ==
            Coalesce(Coalesce(OptGet(OptGet(error, "body"), "message"),
                              OptGet(error, "message")),
                     Str(FALLBACK_MESSAGE))
    IN  _dispatchToast([c EXCEPT !.errorMessage = message], "Error", message, "error")

\* The TypeError of result.success on null or undefined (V8's wording)
TypeErrorReadingSuccess(result) ==
    [t |-> "object",
     message |-> Str("Cannot read properties of " \o TemplateString(result)
                     \o " (reading 'success')")]

\* Variant: Latest Result is recorded only for a successful result
TryResolved_RecordOnSuccess(c, result) ==
    IF Nullish(result)
    THEN _handleCheckError(c, TypeErrorReadingSuccess(result))
    ELSE IF Truthy(Get(result, "success"))
         THEN _handleCheckResult(c, result)
         ELSE _handleCheckResult([c EXCEPT !.latestResult = result], result)

\* try { this.latestResult = result; this._handleCheckResult(result) }
\* catch (error) { this._handleCheckError(error) }
TryResolved(c, result) ==
    LET c1 == [c EXCEPT !.latestResult = result]
    IN  IF Nullish(result)
        THEN _handleCheckError(c1, TypeErrorReadingSuccess(result))
        ELSE _handleCheckResult(c1, result)

\* the await threw: catch (error) { this._handleCheckError(error) }
TryRejected(c, error) == _handleCheckError(c, error)

BranchOfResult(result) ==
    IF Nullish(result) THEN "error"
    ELSE IF Truthy(Get(result, "success")) THEN "success" ELSE "domain"

\* finally { this.isLoading = false; if (this._wiredLogsResult) await refreshApex(...) }
FinallyThis(c) == [c EXCEPT !.isLoading = FALSE]

\* Variant: the refresh sits at the end of try, so the catch path skips it
FinallyRun_RefreshInTry(r, branch) ==
    IF Truthy(wiredLogsResult) /\ branch # "error"
    THEN [r EXCEPT !.pc = "refresh", !.branch = branch, !.refreshes = @ + 1]
    ELSE [r EXCEPT !.pc = "resolved", !.branch = branch]

\* Variant: a failed call is tried once more
FinallyRun_Retry(r, branch) ==
    IF branch = "error" /\ r.calls < 2
    THEN [r EXCEPT !.calls = @ + 1]
    ELSE IF Truthy(wiredLogsResult)
         THEN [r EXCEPT !.pc = "refresh", !.branch = branch, !.refreshes = @ + 1]
         ELSE [r EXCEPT !.pc = "resolved", !.branch = branch]

FinallyRun(r, branch) ==
    IF Truthy(wiredLogsResult)
    THEN [r EXCEPT !.pc = "refresh", !.branch = branch, !.refreshes = @ + 1]
    ELSE [r EXCEPT !.pc = "resolved", !.branch = branch]

Write(c) ==
    /\ isLoading' = c.isLoading
    /\ errorMessage' = c.errorMessage
    /\ latestResult' = c.latestResult
    /\ toasts' = c.toasts

One(r) == SetToBag({r})

\* r moves on to r2: r2 is either suspended again or has ended
Advance(r, r2) ==
    IF r2.pc \in {"call", "refresh"}
    THEN runs' = (runs (-) One(r)) (+) One(r2) /\ returned' = NoRun
    ELSE runs' = runs (-) One(r) /\ returned' = r2

(***************************************************************************)
(* Initial state: the class field initialisers.                            *)
(***************************************************************************)
Init ==
    /\ recordId \in RecordIds
    /\ isLoading = FALSE
    /\ errorMessage = Str("")
    /\ latestResult = Null
    /\ sortedBy = "Callout_Timestamp__c"
    /\ sortedDirection = "desc"
    /\ wiredLogsResult = Undefined
    /\ logs = <<>>
    /\ runs = EmptyBag
    /\ toasts = <<>>
    /\ returned = NoRun
    /\ overlapped = FALSE
    /\ connected = TRUE

(***************************************************************************)
(* Handlers.                                                               *)
(***************************************************************************)
\* _performCreditRiskCheck up to its first await
PerformStart(c) == [c EXCEPT !.isLoading = TRUE, !.errorMessage = Str("")]

\* The run suspended at await checkCreditRisk({ contactId: this.recordId });
\* atStart remembers Latest Result as the run found it.
StartRun ==
    [pc |-> "call", branch |-> "none", atStart |-> latestResult,
     calls |-> 1, refreshes |-> 0, contactId |-> recordId]

\* A click on the button
handleCheckCreditRisk ==
    /\ BagCardinality(runs) < MaxInFlight
    /\ Write(PerformStart(This))
    /\ runs' = runs (+) One(StartRun)
    /\ returned' = NoRun
    /\ overlapped' = (overlapped \/ BagCardinality(runs) > 0)
    /\ UNCHANGED <<recordId, sortedBy, sortedDirection, wiredLogsResult, logs, connected>>

\* checkCreditRisk resolved: the rest of try, then finally
CallResolved(r, result) ==
    /\ BagIn(r, runs) /\ r.pc = "call"
    /\ Write(FinallyThis(TryResolved(This, result)))
    /\ Advance(r, FinallyRun(r, BranchOfResult(result)))
    /\ UNCHANGED <<recordId, sortedBy, sortedDirection, wiredLogsResult, logs, overlapped,
                   connected>>

\* checkCreditRisk rejected: catch, then finally
CallRejected(r, error) ==
    /\ BagIn(r, runs) /\ r.pc = "call"
    /\ Write(FinallyThis(TryRejected(This, error)))
    /\ Advance(r, FinallyRun(r, "error"))
    /\ UNCHANGED <<recordId, sortedBy, sortedDirection, wiredLogsResult, logs, overlapped,
                   connected>>

\* refreshApex resolved: the run returns
RefreshResolved(r) ==
    /\ BagIn(r, runs) /\ r.pc = "refresh"
    /\ Advance(r, [r EXCEPT !.pc = "resolved"])
    /\ toasts' = <<>>
    /\ UNCHANGED <<recordId, isLoading, errorMessage, latestResult, sortedBy,
                   sortedDirection, wiredLogsResult, logs, overlapped, connected>>

\* refreshApex rejected: the exception leaves finally, the run's promise rejects
RefreshRejected(r) ==
    /\ BagIn(r, runs) /\ r.pc = "refresh"
    /\ Advance(r, [r EXCEPT !.pc = "rejected"])
    /\ toasts' = <<>>
    /\ UNCHANGED <<recordId, isLoading, errorMessage, latestResult, sortedBy,
                   sortedDirection, wiredLogsResult, logs, overlapped, connected>>

\* Variant: an error snapshot empties the list
WiredLogsLogs_ClearOnError(result) ==
    IF Truthy(Get(result, "data"))
    THEN _transformLogs(Get(result, "data").items)
    ELSE IF Truthy(Get(result, "error")) THEN <<>> ELSE logs

WiredLogsLogs(result) ==
    IF Truthy(Get(result, "data"))
    THEN _transformLogs(Get(result, "data").items)
    ELSE logs

\* Variant: a data snapshot dismisses the error banner
WiredLogsErrorMessage_ClearOnData(result) ==
    IF Truthy(Get(result, "data")) THEN Str("")
    ELSE IF Truthy(Get(result, "error")) THEN Str(READ_FAILURE_MESSAGE)
    ELSE errorMessage

WiredLogsErrorMessage(result) ==
    IF ~Truthy(Get(result, "data")) /\ Truthy(Get(result, "error"))
    THEN Str(READ_FAILURE_MESSAGE)
    ELSE errorMessage

\* Variant: a data snapshot puts the table back in its initial order
wiredLogs_ResetSort(result) ==
    /\ wiredLogsResult' = result
    /\ logs' = WiredLogsLogs(result)
    /\ errorMessage' = WiredLogsErrorMessage(result)
    /\ sortedBy' = (IF Truthy(Get(result, "data")) THEN "Callout_Timestamp__c" ELSE sortedBy)
    /\ sortedDirection' = (IF Truthy(Get(result, "data")) THEN "desc" ELSE sortedDirection)
    /\ toasts' = <<>>
    /\ returned' = NoRun
    /\ UNCHANGED <<recordId, isLoading, latestResult, runs, overlapped, connected>>

\* The wire adapter provisions a result
wiredLogs(result) ==
    /\ wiredLogsResult' = result
    /\ logs' = WiredLogsLogs(result)
    /\ errorMessage' = WiredLogsErrorMessage(result)
    /\ toasts' = <<>>
    /\ returned' = NoRun
    /\ UNCHANGED <<recordId, isLoading, latestResult, sortedBy, sortedDirection, runs,
                   overlapped, connected>>

\* Variant: a sort request that also dismisses the error banner
handleSort_DismissError(fieldName, sortDirection) ==
    /\ sortedBy' = fieldName
    /\ sortedDirection' = sortDirection
    /\ logs' = _sortLogs(logs, fieldName, sortDirection)
    /\ errorMessage' = Str("")
    /\ toasts' = <<>>
    /\ returned' = NoRun
    /\ UNCHANGED <<recordId, isLoading, latestResult, wiredLogsResult, runs, overlapped,
                   connected>>

\* The datatable's onsort
handleSort(fieldName, sortDirection) ==
    /\ sortedBy' = fieldName
    /\ sortedDirection' = sortDirection
    /\ logs' = _sortLogs(logs, fieldName, sortDirection)
    /\ toasts' = <<>>
    /\ returned' = NoRun
    /\ UNCHANGED <<recordId, isLoading, errorMessage, latestResult, wiredLogsResult, runs,
                   overlapped, connected>>

Suspended == BagToSet(runs)

Next ==
    \/ handleCheckCreditRisk
    \/ \E r \in Suspended, result \in ServiceResults : CallResolved(r, result)
    \/ \E r \in Suspended, error \in ServiceErrors : CallRejected(r, error)
    \/ \E r \in Suspended : RefreshResolved(r)
    \/ \E r \in Suspended : RefreshRejected(r)
    \/ \E result \in WireResults : wiredLogs(result)
    \/ \E fieldName \in SortFields, sortDirection \in SortDirections :
            handleSort(fieldName, sortDirection)

Spec == Init /\ [][Next]_vars

(***************************************************************************)
(* Teardown.  The class defines no disconnectedCallback and no handler     *)
(* reads isConnected: removing the element changes nothing but the         *)
(* platform's flag.  Clicks, sort requests and wire results reach only a   *)
(* connected element; the pending promises of a run settle all the same.   *)
(***************************************************************************)
disconnectedCallback ==
    /\ connected
    /\ connected' = FALSE
    /\ toasts' = <<>>
    /\ returned' = NoRun
    /\ UNCHANGED <<recordId, isLoading, errorMessage, latestResult, sortedBy,
                   sortedDirection, wiredLogsResult, logs, runs, overlapped>>

NextTeardown ==
    \/ connected /\ handleCheckCreditRisk
    \/ \E r \in Suspended, result \in ServiceResults : CallResolved(r, result)
    \/ \E r \in Suspended, error \in ServiceErrors : CallRejected(r, error)
    \/ \E r \in Suspended : RefreshResolved(r)
    \/ \E r \in Suspended : RefreshRejected(r)
    \/ \E result \in WireResults : connected /\ wiredLogs(result)
    \/ \E fieldName \in SortFields, sortDirection \in SortDirections :
            connected /\ handleSort(fieldName, sortDirection)
    \/ disconnectedCallback

SpecTeardown == Init /\ [][NextTeardown]_vars

(***************************************************************************)
(* The history pipeline alone: wire results and sort requests, over every  *)
(* history and every sort request, with no credit check running.           *)
(***************************************************************************)
NextLogs ==
    \/ \E result \in LogsWireResults : wiredLogs(result)
    \/ \E fieldName \in LogsSortFields, sortDirection \in LogsSortDirections :
            handleSort(fieldName, sortDirection)

SpecLogs == Init /\ [][NextLogs]_vars

(***************************************************************************)
(* Orchestration: trigger cycles.                                          *)
(***************************************************************************)
Bound == Truthy(wiredLogsResult)
Returned == returned # NoRun

\* C1: while a trigger cycle has not returned (its service call or its
\* invalidation is pending), a further trigger request starts no run: the
\* number of suspended runs does not grow.
C1_IdleGate ==
    [][BagCardinality(runs) > 0 => BagCardinality(runs') <= BagCardinality(runs)]_vars

\* C2: whenever a run awaits the response of checkCreditRisk, isLoading is
\* true.
C2_LoadingWhileTriggering ==
    (\E r \in Suspended : r.pc = "call") => isLoading

\* C3: at the moment a trigger cycle completes, isLoading is false.
C3_NotLoadingAtCompletion ==
    (Returned /\ returned.pc = "resolved") => ~isLoading

\* C4: every run of a trigger has invoked checkCreditRisk exactly once, with
\* the record id, and refreshApex at most once (not before the call
\* settled); sort requests and snapshot deliveries start no invocation.
C4_RunInvokedOnce(r) ==
    /\ r.calls = 1
    /\ r.contactId = recordId
    /\ r.refreshes <= 1
    /\ r.pc = "call" => r.refreshes = 0

C4_EveryRunInvokedOnce ==
    /\ \A r \in Suspended : C4_RunInvokedOnce(r)
    /\ Returned => C4_RunInvokedOnce(returned)

\* a step that delivers a snapshot or sorts leaves the suspended runs, and so
\* the service, alone
C4_SortAndSnapshotInvokeNothing ==
    (wiredLogsResult' # wiredLogsResult \/ logs' # logs \/ sortedBy' # sortedBy)
        => runs' = runs

C4_OneInvocationPerTrigger ==
    []C4_EveryRunInvokedOnce /\ [][C4_SortAndSnapshotInvokeNothing]_vars

C4_Witness ==
    /\ Returned /\ returned.branch = "error" /\ returned.refreshes = 1
    /\ \E r \in Suspended : r.pc = "refresh"

\* C5: a run awaits refreshApex only after its call has settled and only when
\* the wire has delivered a result; a run that has returned issued the
\* invalidation exactly when the wire was bound, whatever its branch.
C5_InvalidationAfterSettle ==
    /\ \A r \in Suspended :
          r.pc = "refresh" => r.branch # "none" /\ r.refreshes = 1 /\ Bound
    /\ \A r \in Suspended : r.pc = "call" => r.branch = "none" /\ r.refreshes = 0
    /\ Returned => /\ returned.branch # "none"
                   /\ returned.refreshes = (IF Bound THEN 1 ELSE 0)

C5_Witness ==
    /\ Returned /\ returned.branch = "error" /\ returned.refreshes = 1
    /\ \E r \in Suspended : r.pc = "refresh" /\ r.branch = "domain"

(***************************************************************************)
(* Orchestration: what settling a call writes.                             *)
(***************************************************************************)
Toast(title, message, variant) ==
    [title |-> title, message |-> message, variant |-> variant]

IsStructured(result) == result.t = "object"

\* C6 as stated: when a cycle whose call returned success = true completes,
\* Latest Result is a successful result and the error message cleared at its
\* start is still empty.  Stated for cycles that never overlapped another.
C6_EmptyAtCompletion ==
    (~overlapped /\ Returned /\ returned.branch = "success")
        => /\ IsStructured(latestResult) /\ Truthy(latestResult.success)
           /\ errorMessage = Str("")

\* C6 (amended): when the call of a run resolves with a result whose success
\* flag is true, Latest Result becomes that result, the handler dispatches
\* exactly one toast, of variant success, carrying the risk level, and it
\* leaves the error message as it found it.
C6_SuccessSettles ==
    [][\A r \in Suspended, result \in ServiceResults :
        (CallResolved(r, result) /\ IsStructured(result) /\ Truthy(result.success))
        => /\ latestResult' = result
           /\ toasts' = <<Toast("Assessment Complete",
                                Str("Risk Level: " \o result.riskLevel.s), "success")>>
           /\ errorMessage' = errorMessage]_vars

C6_Witness ==
    /\ latestResult = ResultHigh
    /\ toasts = <<Toast("Assessment Complete", Str("Risk Level: High"), "success")>>
    /\ errorMessage = Str(READ_FAILURE_MESSAGE)
    /\ \E r \in Suspended : r.pc = "refresh" /\ r.branch = "success"

\* C7: when the call of a run resolves with success = false and error text m,
\* the error message becomes "API responded with an error: " followed by m,
\* exactly one toast is dispatched, of variant warning with message m, and
\* Latest Result is that result.
C7_DomainFailure ==
    [][\A r \in Suspended, result \in ServiceResults :
        (/\ CallResolved(r, result)
         /\ IsStructured(result)
         /\ result.success = Bool(FALSE)
         /\ result.errorMessage.t = "string")
        => /\ errorMessage' = Str("API responded with an error: " \o result.errorMessage.s)
           /\ toasts' = <<Toast("API Error", result.errorMessage, "warning")>>
           /\ latestResult' = result]_vars

C7_Witness ==
    /\ errorMessage = Str("API responded with an error: Provider unavailable")
    /\ toasts = <<Toast("API Error", Str("Provider unavailable"), "warning")>>
    /\ latestResult = ResultFailed
    /\ latestResult.success = Bool(FALSE)

\* A property is present when the object has it with a value other than
\* undefined and null.
Present(o, f) ==
    /\ o.t = "object"
    /\ f \in DOMAIN o
    /\ o[f].t # "undefined" /\ o[f].t # "null"

\* The message C8 names: the server's, else the exception's, else the fixed one
C8_Precedence(error) ==
    IF Present(error, "body") /\ Present(error.body, "message")
    THEN error.body.message
    ELSE IF Present(error, "message") THEN error.message
    ELSE Str("An unexpected error occurred. Please try again.")

\* C8: when the call of a run rejects, the error message is set to the
\* message chosen by that precedence and exactly one toast is dispatched, of
\* variant error, carrying the same message.
C8_TransportFailureMessage ==
    [][\A r \in Suspended, error \in ServiceErrors :
        CallRejected(r, error)
        => /\ errorMessage' = C8_Precedence(error)
           /\ toasts' = <<Toast("Error", C8_Precedence(error), "error")>>]_vars

\* the three tiers, and a server message that is present but empty
C8_Witness ==
    /\ toasts # <<>> /\ toasts[1].variant = "error"
    /\ errorMessage = Str("")
    /\ toasts[1].message = Str("")

\* C9: when a cycle ends on the error branch, Latest Result is what it was
\* when that trigger started.  Stated for cycles that never overlapped
\* another.
C9_LatestResultKept ==
    (~overlapped /\ Returned /\ returned.branch = "error")
        => latestResult = returned.atStart

\* An error snapshot: no data, an error
IsErrorSnapshot(result) == ~Present(result, "data") /\ Present(result, "error")

\* C10: when the wire delivers an error snapshot, the error message becomes
\* the read-failure text, logs stay as they were, no toast is dispatched,
\* and isLoading, Latest Result and the sort specification are unchanged.
C10_ReadFailure ==
    [][\A result \in WireResults :
        (wiredLogs(result) /\ IsErrorSnapshot(result))
        => /\ errorMessage' =
                Str("Unable to load assessment history. Please refresh the page.")
           /\ logs' = logs
           /\ toasts' = <<>>
           /\ UNCHANGED <<isLoading, latestResult, sortedBy, sortedDirection>>]_vars

C10_Witness ==
    /\ IsErrorSnapshot(wiredLogsResult)
    /\ errorMessage = Str(READ_FAILURE_MESSAGE)
    /\ Len(logs) = 2
    /\ isLoading
    /\ latestResult # Null
    /\ sortedBy = "Risk_Level__c"

(***************************************************************************)
(* Order of the displayed entries.                                         *)
(***************************************************************************)
\* the value an entry is ordered by: a missing one counts as the empty string
KeyOf(entry, field) == Coalesce(Get(entry, field), Str(""))

SameKey(a, b, field) ==
    /\ ~JsLess(KeyOf(a, field), KeyOf(b, field))
    /\ ~JsLess(KeyOf(b, field), KeyOf(a, field))

\* no entry stands before one that the direction puts ahead of it
Ordered(entries, field, direction) ==
    \A i, j \in 1..Len(entries) :
        i < j =>
            IF direction = "asc"
            THEN ~JsLess(KeyOf(entries[j], field), KeyOf(entries[i], field))
            ELSE ~JsLess(KeyOf(entries[i], field), KeyOf(entries[j], field))

Occurrences(entries, x) == Cardinality({i \in 1..Len(entries) : entries[i] = x})

PermutationOf(after, before) ==
    /\ Len(after) = Len(before)
    /\ \A i \in 1..Len(before) :
          Occurrences(after, before[i]) = Occurrences(before, before[i])

\* entries with the same key keep their relative order
Stable(after, before, field) ==
    \A i, j \in 1..Len(before) :
        (i < j /\ SameKey(before[i], before[j], field)) =>
            \E k, l \in 1..Len(after) :
                k < l /\ after[k] = before[i] /\ after[l] = before[j]

IsDataSnapshot(result) == Truthy(Get(result, "data"))

\* C11: after a data snapshot is delivered, the displayed entries are the
\* transformed snapshot ordered by the current sort specification, also when
\* the user has chosen another sort specification than the initial one.  It
\* is stated for the snapshots that arrive newest first, the order of the
\* initial sort specification.
C11_SnapshotKeepsSort ==
    [][\A result \in LogsWireResults :
          (/\ wiredLogs(result)
           /\ IsDataSnapshot(result)
           /\ Ordered(_transformLogs(result.data.items), "Callout_Timestamp__c", "desc"))
          => /\ PermutationOf(logs', _transformLogs(result.data.items))
             /\ Ordered(logs', sortedBy', sortedDirection')]_vars

\* C12: a sort request is one step: it sets the sort specification to the
\* requested field and direction and replaces the displayed entries with a
\* re-ordering of the entries held; it makes no service call and no refresh,
\* and leaves the loading flag, the error message, the latest result and the
\* suspended runs as they are, whatever the runs are doing.
C12_SortRequestStep ==
    [][\A fieldName \in SortFields, sortDirection \in SortDirections :
          handleSort(fieldName, sortDirection)
          => /\ sortedBy' = fieldName
             /\ sortedDirection' = sortDirection
             /\ PermutationOf(logs', logs)
             /\ Ordered(logs', fieldName, sortDirection)
             /\ runs' = runs
             /\ returned' = NoRun
             /\ UNCHANGED <<isLoading, errorMessage, latestResult, wiredLogsResult>>]_vars

\* a sorted, non-empty table beside a failed run's message, with one run
\* waiting for the service and one for the refresh
C12_Witness ==
    /\ sortedBy = "Risk_Level__c"
    /\ sortedDirection = "asc"
    /\ Len(logs) = 2
    /\ isLoading
    /\ errorMessage # Str("")
    /\ \E r \in Suspended : r.pc = "call"
    /\ \E r \in Suspended : r.pc = "refresh"

\* C13: the sort specification starts as (Callout_Timestamp__c, desc) and only
\* a sort request changes it: a click, a service response, a refresh settling
\* and a wire result leave sortedBy and sortedDirection alone.
C13_SortSpecification ==
    /\ sortedBy = "Callout_Timestamp__c" /\ sortedDirection = "desc"
    /\ [][(sortedBy' # sortedBy \/ sortedDirection' # sortedDirection)
          => \E fieldName \in SortFields, sortDirection \in SortDirections :
                handleSort(fieldName, sortDirection)]_vars

\* the user's sort specification after a run has returned and the wire has
\* delivered data
C13_Witness ==
    /\ sortedBy = "Risk_Level__c"
    /\ sortedDirection = "asc"
    /\ Returned
    /\ IsDataSnapshot(wiredLogsResult)

Has(entry, field) == field \in DOMAIN entry

\* C14: for every sequence of displayed entries, every field name (also one
\* that no entry has) and either direction, sorting gives a permutation of
\* the same entries, ordered by the field in the requested direction, in
\* which entries with equal keys keep their relative order; with a field no
\* entry has the order is unchanged.
C14_SortResult ==
    [][\A fieldName \in LogsSortFields, sortDirection \in LogsSortDirections :
          handleSort(fieldName, sortDirection)
          => /\ PermutationOf(logs', logs)
             /\ Ordered(logs', fieldName, sortDirection)
             /\ Stable(logs', logs, fieldName)
             /\ (\A i \in 1..Len(logs) : ~Has(logs[i], fieldName)) => logs' = logs]_vars

\* three entries put in descending order of risk level, not the order they
\* were delivered in, two of them with the same risk level
C14_Witness ==
    /\ sortedBy = "Risk_Level__c"
    /\ sortedDirection = "desc"
    /\ IsDataSnapshot(wiredLogsResult)
    /\ Len(logs) = 3
    /\ logs # _transformLogs(wiredLogsResult.data.items)
    /\ PermutationOf(logs, _transformLogs(wiredLogsResult.data.items))
    /\ Ordered(logs, "Risk_Level__c", "desc")
    /\ \E i, j \in 1..3 : i < j /\ SameKey(logs[i], logs[j], "Risk_Level__c")

DistinctKeys(entries, field) ==
    \A i, j \in 1..Len(entries) : i # j => ~SameKey(entries[i], entries[j], field)

Reverse(entries) == [i \in 1..Len(entries) |-> entries[Len(entries) + 1 - i]]

\* C15: when the keys of the entries on a field are pairwise distinct and the
\* entries have been sorted ascending by that field, sorting them descending
\* by the same field gives exactly the reverse.
C15_DescendingReverses ==
    [][\A fieldName \in LogsSortFields :
          (/\ handleSort(fieldName, "desc")
           /\ sortedBy = fieldName
           /\ sortedDirection = "asc"
           /\ Ordered(logs, fieldName, "asc")
           /\ DistinctKeys(logs, fieldName))
          => logs' = Reverse(logs)]_vars

\* three entries with distinct status codes, one of them without any, in
\* descending order after having been in ascending order
C15_Witness ==
    /\ sortedBy = "HTTP_Status_Code__c"
    /\ sortedDirection = "desc"
    /\ Len(logs) = 3
    /\ DistinctKeys(logs, "HTTP_Status_Code__c")
    /\ \E i \in 1..3 : Nullish(logs[i].HTTP_Status_Code__c)
    /\ Ordered(logs, "HTTP_Status_Code__c", "desc")
    /\ IsDataSnapshot(wiredLogsResult)
    /\ Ordered(_transformLogs(wiredLogsResult.data.items), "HTTP_Status_Code__c", "asc")

(***************************************************************************)
(* The transformer.                                                        *)
(***************************************************************************)
\* what the claim says of one raw record and its display entry
DisplaysRecord(entry, raw) ==
    /\ entry.Id = raw.Id
    /\ IF Has(raw, "Callout_Success__c") /\ raw.Callout_Success__c = Bool(TRUE)
       THEN entry.statusText = Str("Success") /\ entry.statusIconName = Str("utility:success")
       ELSE entry.statusText = Str("Failed") /\ entry.statusIconName = Str("utility:error")
    /\ \A field \in {"Risk_Level__c", "API_Answer__c"} :
          /\ Has(entry, field)
          /\ ~Nullish(entry[field])
          /\ entry[field] # Str("")
          /\ entry[field] = (IF Has(raw, field) THEN raw[field] ELSE Str(PLACEHOLDER))

\* C16: for every sequence of raw log records (the empty one, and records
\* without their optional fields), the transformer returns as many entries,
\* the i-th with the i-th record's Id, with "Success" and the success icon
\* when the success flag is true and "Failed" and the error icon otherwise,
\* and with the placeholder (never null, absent or empty) for an absent risk
\* level or API answer; the records delivered are left as they were.
C16_Transformer ==
    [][\A result \in LogsWireResults :
          (wiredLogs(result) /\ IsDataSnapshot(result))
          => /\ Len(logs') = Len(result.data.items)
             /\ \A i \in 1..Len(result.data.items) :
                   DisplaysRecord(logs'[i], result.data.items[i])
             /\ wiredLogsResult'.data.items = result.data.items]_vars

\* a failed record without risk level and answer, a record without success
\* flag, and a successful one, displayed in the order delivered
C16_Witness ==
    /\ IsDataSnapshot(wiredLogsResult)
    /\ wiredLogsResult.data.items = <<LogB, LogD, LogA>>
    /\ Len(logs) = 3
    /\ logs[1].Risk_Level__c = Str(PLACEHOLDER)
    /\ logs[2].statusText = Str("Failed")
    /\ logs[3].statusText = Str("Success")

\* a value that is missing, or the placeholder put in its place
IsBlank(v) == Nullish(v) \/ v = Str("") \/ v = Str(PLACEHOLDER)

\* C17: when the entries are sorted ascending by a field, every entry whose
\* value for that field is missing or is the placeholder stands before every
\* entry that has a real value for it.
C17_BlanksFirst ==
    [][\A fieldName \in LogsSortFields :
          handleSort(fieldName, "asc")
          => \A i, j \in 1..Len(logs') :
                (IsBlank(Get(logs'[i], fieldName)) /\ ~IsBlank(Get(logs'[j], fieldName)))
                => i < j]_vars

(***************************************************************************)
(* Failures, teardown and the shared error message.                        *)
(***************************************************************************)
\* C18: no failure of a remote operation escapes a trigger: whether the
\* service call fails or refreshApex rejects, the promise of the run is
\* fulfilled, never rejected.  Stated for runs that never overlapped another.
C18_NoFailureEscapes ==
    (~overlapped /\ Returned) => returned.pc = "resolved"

NewlySuspended(pc) ==
    {r \in BagToSet(runs') : r.pc = pc /\ CopiesIn(r, runs') > CopiesIn(r, runs)}

\* C19: once the component has been torn down, a continuation that resumes
\* writes none of isLoading, errorMessage and latestResult, dispatches no
\* toast and calls no refreshApex.
C19_TornDownRunWritesNothing ==
    [][~connected
       => /\ UNCHANGED <<isLoading, errorMessage, latestResult>>
          /\ toasts' = <<>>
          /\ NewlySuspended("refresh") = {}]_vars

SettlesSuccess(r, result) ==
    CallResolved(r, result) /\ IsStructured(result) /\ Truthy(result.success)

\* C20 as stated: between the click that clears the error message and the
\* settling of that click's service call no wire result writes the error
\* message, and the message is empty once a successful call has settled.
\* Stated for runs that never overlapped another.
C20_NoInterleaving ==
    [][~overlapped
       => /\ \A result \in WireResults :
                (wiredLogs(result) /\ \E r \in Suspended : r.pc = "call")
                => errorMessage' = errorMessage
          /\ \A r \in Suspended, result \in ServiceResults :
                SettlesSuccess(r, result) => errorMessage' = Str("")]_vars

\* the error message right after a settle: the settling run's own message
\* when it failed; when it succeeded, and no other run overlapped it, empty
\* or the read-failure text
C20_AfterSettle ==
    toasts # <<>>
    => IF toasts[1].variant = "success"
       THEN overlapped \/ errorMessage \in {Str(""), Str(READ_FAILURE_MESSAGE)}
       ELSE IF toasts[1].variant = "warning"
       THEN errorMessage =
                Str("API responded with an error: " \o TemplateString(toasts[1].message))
       ELSE errorMessage = toasts[1].message

\* C20 (amended): every write to the error message is one whole handler
\* step.  A wire result writes it only when it is an error snapshot, with the
\* read-failure text, also between a click and the settling of its call; a
\* successful settle writes nothing.  So right after a settle the message is
\* the settling run's own when it failed, and after a success it is what it
\* was just before: empty, or the read-failure text of an error snapshot
\* delivered since the click.
C20_WholeStepWrites ==
    /\ []C20_AfterSettle
    /\ [][/\ \A result \in WireResults :
                wiredLogs(result)
                => errorMessage' = (IF IsErrorSnapshot(result)
                                    THEN Str(READ_FAILURE_MESSAGE) ELSE errorMessage)
          /\ \A r \in Suspended, result \in ServiceResults :
                SettlesSuccess(r, result) => errorMessage' = errorMessage]_vars

\* a successful call has just settled, alone, and the message on display is
\* the read-failure text of an error snapshot delivered while it was pending
C20_Witness ==
    /\ ~overlapped
    /\ toasts # <<>>
    /\ toasts[1].variant = "success"
    /\ errorMessage = Str(READ_FAILURE_MESSAGE)
    /\ IsErrorSnapshot(wiredLogsResult)
    /\ ~isLoading

====
